---- MODULE Spec2Model ----
(***************************************************************************)
(* pynumaflow/function/sync_server.py: SyncServerServicer, the synchronous *)
(* gRPC servicer that dispatches Map, MapTransform, Reduce and IsReady     *)
(* calls to user handlers from a ThreadPoolExecutor.                       *)
(*                                                                         *)
(* A call is a slot c.  Its local variables (request, msgs, err, datums)   *)
(* are functions of c, its position in the method body is pc[c].  The      *)
(* thread pool is the FIFO work queue `queue` plus the slots that hold a   *)
(* worker (pc in "running", "loop", "stuck").                              *)
(*                                                                         *)
(* Spec      one connection issuing calls back to back (one slot, reused), *)
(*           the full input domain.                                        *)
(* PoolSpec  MaxCalls calls in flight on a pool of up to MaxThreads        *)
(*           workers, a small input domain.                                *)
(* FairPoolSpec  the same pool with the fairness of its worker threads.    *)
(***************************************************************************)
EXTENDS Integers, Sequences, FiniteSets, TLC

VARIABLES args, servicer, pc, op, request, msgs, err, i, datums, result, invoked,
          queue

vars == <<args, servicer, pc, op, request, msgs, err, i, datums, result, invoked, queue>>

(* ------------------------------ bounds -------------------------------- *)

\* call slots of PoolSpec
MaxCalls == 3
\* max_threads ranges over 1..MaxThreads
MaxThreads == 2
\* wire timestamps carry seconds in 0..MaxSeconds
MaxSeconds == 1

(* ------------------------------ values -------------------------------- *)

None == "None"
NoValue == "NoValue"
\* a message field that is not present on the wire
Unset == [unset |-> TRUE]
\* a slot that holds no request
NoRequest == [none |-> TRUE]

\* google.protobuf.Timestamp resolution against datetime resolution
NANOS_PER_MICROSECOND == 1000

\* nanos of the wire timestamps: whole microseconds and sub-microsecond rests
Nanos == {0, 2000, 2500}

Timestamps == [seconds : 0..MaxSeconds, nanos : Nanos]

KeyLists == {<<>>, <<"a">>, <<"a", "b">>}
Values == {"1", "2"}

\* udfunction_pb2.Datum as received: a time field is a Timestamp or absent
Requests ==
    [keys : KeyLists, value : Values,
     event_time : {Unset, [seconds |-> 0, nanos |-> 2000]},
     watermark : {Unset} \cup Timestamps]

PoolRequests ==
    [keys : {<<"a">>}, value : {"1", "2", "3"},
     event_time : {[seconds |-> 0, nanos |-> 2000]},
     watermark : {[seconds |-> 1, nanos |-> 0]}]

\* the request stream of a Reduce call
Streams ==
    {[stream |-> <<>>]} \cup {[stream |-> <<r>>] : r \in PoolRequests}

\* user handlers, by behaviour (see HandlerOutcome)
MapKinds == {None, "echo", "drop", "fanout", "moody"}
MapTKinds == {None, "remap", "drop", "observe", "moody"}
ReduceKinds == {None, "count"}

Ops == {"Map", "MapT", "Reduce", "IsReady"}

SeqCalls == {1}
PoolCalls == 1..MaxCalls
Calls == SeqCalls \cup PoolCalls

(* --------------------------- conversions ------------------------------ *)

\* reading a message field that is absent yields the default message
GetTimestamp(f) == IF f = Unset THEN [seconds |-> 0, nanos |-> 0] ELSE f

\* Timestamp.ToDatetime(): a naive UTC datetime, microsecond resolution
ToDatetime(ts) ==
    [seconds |-> ts.seconds, microsecond |-> ts.nanos \div NANOS_PER_MICROSECOND]

\* Timestamp.FromDatetime(dt)
FromDatetime(dt) ==
    [seconds |-> dt.seconds, nanos |-> dt.microsecond * NANOS_PER_MICROSECOND]

\* Datum(keys=list(request.keys), value=..., event_time=..., watermark=...)
DecodeDatum(req) ==
    [keys |-> req.keys,
     value |-> req.value,
     event_time |-> ToDatetime(GetTimestamp(req.event_time)),
     watermark |-> ToDatetime(GetTimestamp(req.watermark))]

(* ----------------------------- handlers ------------------------------- *)

\* the fixed new event time of the docstring's mapt_handler
T2 == [seconds |-> 1, microsecond |-> 7]

Returns(items) == [type |-> "return", items |-> items, err |-> NoValue]
Raises(e) == [type |-> "raise", items |-> <<>>, err |-> e]
Hangs == [type |-> "hang", items |-> <<>>, err |-> NoValue]

\* what a user handler of kind h does with (keys, datum)
HandlerOutcome(h, keys, datum) ==
    CASE h = "echo" ->
           Returns(<<[keys |-> keys, value |-> datum.value]>>)
      [] h = "drop" ->
           Returns(<<>>)
      [] h = "fanout" ->
           Returns(<<[keys |-> keys, value |-> datum.value \o datum.value],
                     [keys |-> <<"z">>, value |-> datum.value]>>)
      [] h = "remap" ->
           Returns(<<[keys |-> keys, value |-> datum.value, event_time |-> T2]>>)
      [] h = "observe" ->
           Returns(<<[keys |-> keys, value |-> datum.value,
                      event_time |-> datum.watermark],
                     [keys |-> <<"z">>, value |-> datum.value,
                      event_time |-> datum.event_time]>>)
      [] h = "moody" ->
           IF datum.value = "2" THEN Raises("UDFError")
           ELSE IF datum.value = "3" THEN Hangs
           ELSE Returns(<<[keys |-> keys, value |-> datum.value \o datum.value,
                           event_time |-> T2],
                          [keys |-> <<"z">>, value |-> datum.value,
                           event_time |-> datum.watermark]>>)
      [] OTHER -> Raises("UDFError")

\* self.__handler(keys, datum): calling None raises TypeError
CallHandler(h, keys, datum) ==
    IF h = None THEN Raises("TypeError") ELSE HandlerOutcome(h, keys, datum)

(* ------------------------------ results ------------------------------- *)

NoResult == [kind |-> "none"]

\* udfunction_pb2.DatumList(elements=datums)
DatumList(elements) == [kind |-> "response", elements |-> elements]

\* mutant: the handler's error is swallowed and an empty response returned
ReraiseSwallowed(e) == DatumList(<<>>)

\* except Exception as err: _LOGGER.critical(...); raise err
Reraise(e) == [kind |-> "error", err |-> e, logged |-> "critical"]

\* raise ValueError("Reduce Not supported on sync")
Unsupported == [kind |-> "error", err |-> "ValueError", logged |-> "error"]

ReadyResponse(ready) == [kind |-> "ready", ready |-> ready]

(* ----------------------------- __init__ ------------------------------- *)

NoArgs == [map_handler |-> None, mapt_handler |-> None, reduce_handler |-> None]

NotConstructed ==
    [state |-> "none", map_handler |-> None, mapt_handler |-> None,
     reduce_handler |-> None, max_threads |-> 0]

\* raise ValueError("Require a valid map/mapt handler and/or a valid reduce handler.")
ConfigurationError ==
    [state |-> "failed", map_handler |-> None, mapt_handler |-> None,
     reduce_handler |-> None, max_threads |-> 0]

\* mutant: every handler is required
NoHandlerUnlessAll(mh, mth, rh) == ~(mh # None /\ mth # None /\ rh # None)

\* not (map_handler or mapt_handler or reduce_handler)
NoHandler(mh, mth, rh) == ~(mh # None \/ mth # None \/ rh # None)

SyncServerServicer(mh, mth, rh, n) ==
    IF NoHandler(mh, mth, rh)
    THEN ConfigurationError
    ELSE [state |-> "ok", map_handler |-> mh, mapt_handler |-> mth,
          reduce_handler |-> rh, max_threads |-> n]

Construct(mh, mth, rh, n) ==
    /\ servicer.state = "none"
    /\ args' = [map_handler |-> mh, mapt_handler |-> mth, reduce_handler |-> rh]
    /\ servicer' = SyncServerServicer(mh, mth, rh, n)
    /\ UNCHANGED <<pc, op, request, msgs, err, i, datums, result, invoked, queue>>

(* ------------------------- the worker pool ---------------------------- *)

\* mutant: the pool is one worker short
max_workers_less(s) == s.max_threads - 1

\* ThreadPoolExecutor(max_workers=self._max_threads)
max_workers(s) == s.max_threads

Busy == Cardinality({c \in Calls : pc[c] \in {"running", "loop", "stuck"}})

\* the transport hands an incoming call to the executor's work queue
Issue(c, o, req) ==
    /\ servicer.state = "ok"
    /\ pc[c] = "idle"
    /\ \A d \in Calls : d < c => pc[d] # "idle"
    /\ pc' = [pc EXCEPT ![c] = "queued"]
    /\ op' = [op EXCEPT ![c] = o]
    /\ request' = [request EXCEPT ![c] = req]
    /\ queue' = Append(queue, c)
    /\ UNCHANGED <<args, servicer, msgs, err, i, datums, result, invoked>>

\* an idle worker takes the oldest queued call
Dispatch(c) ==
    /\ queue # <<>>
    /\ c = Head(queue)
    /\ Busy < max_workers(servicer)
    /\ pc' = [pc EXCEPT ![c] = "running"]
    /\ queue' = Tail(queue)
    /\ UNCHANGED <<args, servicer, op, request, msgs, err, i, datums, result, invoked>>

(* ------------------------------ MapFn --------------------------------- *)

\* mutant: a missing map handler falls back to the mapt handler
MapHandlerFallback(s) == IF s.map_handler # None THEN s.map_handler ELSE s.mapt_handler

\* self.__map_handler
MapHandler(s) == s.map_handler

\* mutant: the output list is kept on the servicer and shared by the calls
NewDatumsShared(c) ==
    IF \E d \in Calls \ {c} : pc[d] = "loop"
    THEN datums[CHOOSE d \in Calls \ {c} : pc[d] = "loop"]
    ELSE <<>>

\* datums = []
NewDatums(c) == <<>>

\* mutant: the request's time fields are copied to the output
EncodePlainWithTimes(msg, req) ==
    [keys |-> msg.keys, value |-> msg.value,
     event_time |-> req.event_time, watermark |-> req.watermark]

\* udfunction_pb2.Datum(keys=msg.keys, value=msg.value)
EncodePlain(msg, req) ==
    [keys |-> msg.keys, value |-> msg.value, event_time |-> Unset, watermark |-> Unset]

\* the try block: build the Datum, call the handler
HandlerStep(c, h) ==
    LET out == CallHandler(h, request[c].keys, DecodeDatum(request[c]))
    IN /\ invoked' = [invoked EXCEPT ![c] = IF h = None THEN @ ELSE @ + 1]
       /\ CASE out.type = "return" ->
                 /\ msgs' = [msgs EXCEPT ![c] = out.items]
                 /\ datums' = [datums EXCEPT ![c] = NewDatums(c)]
                 /\ i' = [i EXCEPT ![c] = 0]
                 /\ pc' = [pc EXCEPT ![c] = "loop"]
                 /\ UNCHANGED <<err, result>>
            [] out.type = "raise" ->
                 /\ err' = [err EXCEPT ![c] = out.err]
                 /\ result' = [result EXCEPT ![c] = Reraise(out.err)]
                 /\ pc' = [pc EXCEPT ![c] = "done"]
                 /\ UNCHANGED <<msgs, datums, i>>
            [] out.type = "hang" ->
                 /\ pc' = [pc EXCEPT ![c] = "stuck"]
                 /\ UNCHANGED <<msgs, err, datums, i, result>>
       /\ UNCHANGED <<args, servicer, op, request, queue>>

MapFnCall(c) ==
    /\ pc[c] = "running"
    /\ op[c] = "Map"
    /\ HandlerStep(c, MapHandler(servicer))

\* for msg in msgs.items(): datums.append(...)
MapFnAppend(c) ==
    /\ pc[c] = "loop"
    /\ op[c] = "Map"
    /\ i[c] < Len(msgs[c])
    /\ i' = [i EXCEPT ![c] = @ + 1]
    /\ datums' = [datums EXCEPT ![c] = Append(@, EncodePlain(msgs[c][i[c] + 1], request[c]))]
    /\ UNCHANGED <<args, servicer, pc, op, request, msgs, err, result, invoked, queue>>

\* return udfunction_pb2.DatumList(elements=datums)
FnReturn(c) ==
    /\ pc[c] = "loop"
    /\ i[c] = Len(msgs[c])
    /\ result' = [result EXCEPT ![c] = DatumList(datums[c])]
    /\ pc' = [pc EXCEPT ![c] = "done"]
    /\ UNCHANGED <<args, servicer, op, request, msgs, err, i, datums, invoked, queue>>

MapFnReturn(c) == op[c] = "Map" /\ FnReturn(c)

(* ------------------------------ MapTFn -------------------------------- *)

\* self.__mapt_handler
MapTHandler(s) == s.mapt_handler

\* the watermark put on every output of a MapTFn call
WatermarkOf(req) == FromDatetime(ToDatetime(GetTimestamp(req.watermark)))

\* udfunction_pb2.Datum(keys, value, event_time=EventTime(...), watermark=Watermark(...))
EncodeTimeRemap(msgt, req) ==
    [keys |-> msgt.keys, value |-> msgt.value,
     event_time |-> FromDatetime(msgt.event_time),
     watermark |-> WatermarkOf(req)]

MapTFnCall(c) ==
    /\ pc[c] = "running"
    /\ op[c] = "MapT"
    /\ HandlerStep(c, MapTHandler(servicer))

MapTFnAppend(c) ==
    /\ pc[c] = "loop"
    /\ op[c] = "MapT"
    /\ i[c] < Len(msgs[c])
    /\ i' = [i EXCEPT ![c] = @ + 1]
    /\ datums' = [datums EXCEPT ![c] =
                    Append(@, EncodeTimeRemap(msgs[c][i[c] + 1], request[c]))]
    /\ UNCHANGED <<args, servicer, pc, op, request, msgs, err, result, invoked, queue>>

MapTFnReturn(c) == op[c] = "MapT" /\ FnReturn(c)

(* ------------------------- ReduceFn, IsReady -------------------------- *)

\* mutant: the commented-out return of an empty DatumList
ReduceFnEmpty(h, stream) == DatumList(<<>>)

\* the body of ReduceFn: log, then raise; request_iterator and the handler unused
ReduceFnOutcome(h, stream) == Unsupported

ReduceFn(c) ==
    /\ pc[c] = "running"
    /\ op[c] = "Reduce"
    /\ result' = [result EXCEPT ![c] = ReduceFnOutcome(servicer.reduce_handler, request[c])]
    /\ pc' = [pc EXCEPT ![c] = "done"]
    /\ UNCHANGED <<args, servicer, op, request, msgs, err, i, datums, invoked, queue>>

\* mutant: ready only when a map handler is registered
IsReadyIfMap(s) == ReadyResponse(s.map_handler # None)

\* return udfunction_pb2.ReadyResponse(ready=True)
IsReadyOutcome(s) == ReadyResponse(TRUE)

IsReady(c) ==
    /\ pc[c] = "running"
    /\ op[c] = "IsReady"
    /\ result' = [result EXCEPT ![c] = IsReadyOutcome(servicer)]
    /\ pc' = [pc EXCEPT ![c] = "done"]
    /\ UNCHANGED <<args, servicer, op, request, msgs, err, i, datums, invoked, queue>>

\* the transport has sent the outcome; nothing of the call is kept
Release(c) ==
    /\ pc[c] = "done"
    /\ pc' = [pc EXCEPT ![c] = "idle"]
    /\ op' = [op EXCEPT ![c] = None]
    /\ request' = [request EXCEPT ![c] = NoRequest]
    /\ msgs' = [msgs EXCEPT ![c] = <<>>]
    /\ err' = [err EXCEPT ![c] = NoValue]
    /\ i' = [i EXCEPT ![c] = 0]
    /\ datums' = [datums EXCEPT ![c] = <<>>]
    /\ result' = [result EXCEPT ![c] = NoResult]
    /\ invoked' = [invoked EXCEPT ![c] = 0]
    /\ UNCHANGED <<args, servicer, queue>>

(* --------------------------- specifications --------------------------- *)

Init ==
    /\ args = NoArgs
    /\ servicer = NotConstructed
    /\ pc = [c \in Calls |-> "idle"]
    /\ op = [c \in Calls |-> None]
    /\ request = [c \in Calls |-> NoRequest]
    /\ msgs = [c \in Calls |-> <<>>]
    /\ err = [c \in Calls |-> NoValue]
    /\ i = [c \in Calls |-> 0]
    /\ datums = [c \in Calls |-> <<>>]
    /\ result = [c \in Calls |-> NoResult]
    /\ invoked = [c \in Calls |-> 0]
    /\ queue = <<>>

RequestsOf(o) == IF o = "Reduce" THEN Streams ELSE IF o = "IsReady" THEN {NoRequest} ELSE Requests

Step(c) ==
    \/ Dispatch(c)
    \/ MapFnCall(c)
    \/ MapFnAppend(c)
    \/ MapFnReturn(c)
    \/ MapTFnCall(c)
    \/ MapTFnAppend(c)
    \/ MapTFnReturn(c)
    \/ ReduceFn(c)
    \/ IsReady(c)

Next ==
    \/ \E mh \in MapKinds, mth \in MapTKinds, rh \in ReduceKinds, n \in 1..MaxThreads :
         Construct(mh, mth, rh, n)
    \/ \E c \in SeqCalls, o \in Ops : \E req \in RequestsOf(o) : Issue(c, o, req)
    \/ \E c \in SeqCalls : Step(c)
    \/ \E c \in SeqCalls : Release(c)

Spec == Init /\ [][Next]_vars

\* PoolSpec: the handlers are the ones whose outcome depends on the request
PoolMapKinds == {None, "moody"}
PoolMapTKinds == {"moody"}

PoolRequestsOf(o) ==
    IF o = "Reduce" THEN {[stream |-> <<>>]}
    ELSE IF o = "IsReady" THEN {NoRequest} ELSE PoolRequests

PoolNext ==
    \/ \E mh \in PoolMapKinds, mth \in PoolMapTKinds, n \in 1..MaxThreads :
         Construct(mh, mth, None, n)
    \/ \E c \in PoolCalls, o \in Ops : \E req \in PoolRequestsOf(o) : Issue(c, o, req)
    \/ \E c \in PoolCalls : Step(c)

PoolSpec == Init /\ [][PoolNext]_vars

\* FairPoolSpec: requests whose handler returns ("1") or never returns ("3")
ProbeRequests == {r \in PoolRequests : r.value \in {"1", "3"}}

ProbeRequestsOf(o) ==
    IF o = "Reduce" THEN {[stream |-> <<>>]}
    ELSE IF o = "IsReady" THEN {NoRequest} ELSE ProbeRequests

ProbeNext ==
    \/ \E n \in 1..MaxThreads : Construct("moody", "moody", None, n)
    \/ \E c \in PoolCalls, o \in Ops : \E req \in ProbeRequestsOf(o) : Issue(c, o, req)
    \/ \E c \in PoolCalls : Step(c)

\* every worker thread that can take a step does; a handler that hangs keeps its
\* worker for good ("stuck", from which no step is enabled)
FairPoolSpec == Init /\ [][ProbeNext]_vars /\ \A c \in PoolCalls : WF_vars(Step(c))

(* ------------------- the methods run on their own --------------------- *)

\* MapFn on request req with no other call in the process
MapFnAlone(s, req) ==
    LET out == CallHandler(MapHandler(s), req.keys, DecodeDatum(req))
    IN CASE out.type = "raise" -> Reraise(out.err)
         [] out.type = "hang" -> NoResult
         [] OTHER -> DatumList([k \in 1..Len(out.items) |-> EncodePlain(out.items[k], req)])

\* MapTFn on request req with no other call in the process
MapTFnAlone(s, req) ==
    LET out == CallHandler(MapTHandler(s), req.keys, DecodeDatum(req))
    IN CASE out.type = "raise" -> Reraise(out.err)
         [] out.type = "hang" -> NoResult
         [] OTHER ->
              DatumList([k \in 1..Len(out.items) |-> EncodeTimeRemap(out.items[k], req)])

(* ------------------------------ claims -------------------------------- *)

MapCalls == {c \in Calls : op[c] \in {"Map", "MapT"}}

\* the handler object a Map or MapTransform call uses
HandlerOf(c) == IF op[c] = "Map" THEN servicer.map_handler ELSE servicer.mapt_handler

\* what the registered handler does with the request of call c
OutcomeOf(c) == HandlerOutcome(HandlerOf(c), request[c].keys, DecodeDatum(request[c]))

\* call c has left the try block
PastTry(c) == pc[c] \in {"loop", "stuck", "done"}

Returned(c) == pc[c] = "done" /\ result[c].kind = "response"

\* C1: every output record of a MapTransform call that returned carries the
\* request's watermark (an absent field read as the default Timestamp) and the
\* event time the handler gave for that output.
C1_RequestWatermark ==
    \A c \in Calls :
        (op[c] = "MapT" /\ Returned(c)) =>
            /\ Len(result[c].elements) = Len(msgs[c])
            /\ \A k \in 1..Len(result[c].elements) :
                 /\ GetTimestamp(result[c].elements[k].watermark)
                      = GetTimestamp(request[c].watermark)
                 /\ ToDatetime(result[c].elements[k].event_time) = msgs[c][k].event_time

\* C2: a Map call whose handler returned K messages answers with exactly K
\* records, in the handler's order, the k-th with the keys and value of the k-th
\* message and neither event_time nor watermark; K = 0 gives an empty response.
C2_MapOutputs ==
    \A c \in Calls :
        (op[c] = "Map" /\ pc[c] = "done" /\ HandlerOf(c) # None
           /\ OutcomeOf(c).type = "return") =>
            /\ result[c].kind = "response"
            /\ Len(result[c].elements) = Len(OutcomeOf(c).items)
            /\ \A k \in 1..Len(OutcomeOf(c).items) :
                 /\ result[c].elements[k].keys = OutcomeOf(c).items[k].keys
                 /\ result[c].elements[k].value = OutcomeOf(c).items[k].value
                 /\ result[c].elements[k].event_time = Unset
                 /\ result[c].elements[k].watermark = Unset

C2_Witness ==
    /\ op[1] = "Map" /\ pc[1] = "done" /\ servicer.map_handler = "fanout"
    /\ request[1].event_time # Unset /\ request[1].watermark # Unset
    /\ request[1].keys = <<"a", "b">>
    /\ Len(result[1].elements) = 2

C4_FailFast ==
    /\ servicer.state # "none" =>
         (servicer.state = "failed"
            <=> (args.map_handler = None /\ args.mapt_handler = None
                   /\ args.reduce_handler = None))
    /\ servicer.state # "ok" => (queue = <<>> /\ \A c \in Calls : pc[c] = "idle")
    /\ servicer.state = "ok" =>
         /\ servicer.map_handler = args.map_handler
         /\ servicer.mapt_handler = args.mapt_handler
         /\ servicer.reduce_handler = args.reduce_handler

C4_Witness == servicer.state = "failed" /\ args = NoArgs

\* C5: when the user handler raises in a Map or MapTransform call, the call ends
\* with that same exception: the handler ran once, no record was produced and
\* no response returned.
C5_HandlerErrorReraised ==
    \A c \in MapCalls :
        (PastTry(c) /\ HandlerOf(c) # None /\ OutcomeOf(c).type = "raise") =>
            /\ pc[c] = "done"
            /\ result[c].kind = "error"
            /\ result[c].err = OutcomeOf(c).err
            /\ err[c] = OutcomeOf(c).err
            /\ invoked[c] = 1
            /\ datums[c] = <<>>

C5_Witness ==
    /\ op[1] = "MapT" /\ pc[1] = "done" /\ servicer.mapt_handler = "moody"
    /\ request[1].value = "2"
    /\ result[1].kind = "error" /\ result[1].err = "UDFError"

MissingTimestamp(req) == req.event_time = Unset \/ req.watermark = Unset

\* C6: a Map or MapTransform request that lacks event_time or watermark fails:
\* the handler is not invoked and no response is returned.
C6_MissingTimestampFails ==
    \A c \in MapCalls :
        (PastTry(c) /\ MissingTimestamp(request[c])) =>
            /\ invoked[c] = 0
            /\ pc[c] = "done"
            /\ result[c].kind = "error"

\* C7: an IsReady call that executes on a constructed servicer returns ready=true.
C7_AlwaysReady ==
    \A c \in Calls :
        op[c] = "IsReady" =>
            /\ pc[c] \in {"queued", "running", "done"}
            /\ pc[c] = "done" => result[c] = ReadyResponse(TRUE)
            /\ pc[c] # "done" => result[c] = NoResult

C7_Witness ==
    /\ pc[1] = "done" /\ result[1].kind = "error"
    /\ pc[2] = "done" /\ result[2].kind = "response"
    /\ op[3] = "IsReady" /\ pc[3] = "done" /\ result[3].ready
    /\ servicer.map_handler = None

\* the outcome call c has when it runs alone on its request
Alone(c) ==
    IF op[c] = "Map" THEN MapFnAlone(servicer, request[c])
    ELSE MapTFnAlone(servicer, request[c])

\* C8: under every interleaving, a Map or MapTransform call's output list is at
\* each step a prefix of, and its outcome is, what the call produces alone.
C8_CallLocal ==
    \A c \in MapCalls :
        /\ pc[c] = "done" => result[c] = Alone(c)
        /\ pc[c] = "loop" =>
             /\ Alone(c).kind = "response"
             /\ i[c] <= Len(Alone(c).elements)
             /\ datums[c] = SubSeq(Alone(c).elements, 1, i[c])
        /\ pc[c] = "stuck" => Alone(c) = NoResult

\* two calls are in their loops at once, next to one that failed
C8_Witness ==
    /\ pc[1] = "done" /\ op[1] \in {"Map", "MapT"} /\ result[1].kind = "error"
    /\ pc[2] = "loop" /\ i[2] = 1 /\ request[2].value = "1"
    /\ pc[3] = "loop" /\ i[3] = 1 /\ op[3] # op[2]

Stuck == Cardinality({c \in Calls : pc[c] = "stuck"})

\* C9 as claimed: every IsReady call issued is eventually answered, also while
\* handlers that have not returned occupy workers.
C9_IsReadyAnswered ==
    \A c \in PoolCalls : (op[c] = "IsReady" /\ pc[c] = "queued") ~> (pc[c] = "done")

\* C9 amended: every IsReady call issued is eventually answered unless all
\* max_threads workers come to be held by handlers that never return.
C9_IsReadyAnsweredUnlessPoolStuck ==
    \A c \in PoolCalls :
        (op[c] = "IsReady" /\ pc[c] = "queued")
            ~> (pc[c] = "done" \/ Stuck = servicer.max_threads)

\* call 1 took a worker before call 3 (FIFO) and its handler never returns;
\* the IsReady call 3 got the other worker once call 2 was done
C9_Witness ==
    /\ servicer.max_threads = 2
    /\ pc[1] = "stuck"
    /\ op[2] \in {"Map", "MapT"} /\ pc[2] = "done"
    /\ op[3] = "IsReady" /\ pc[3] = "done" /\ result[3].ready

\* C10: on a servicer without a map (mapt) handler every Map (MapTransform) call
\* ends in the logged-and-raised error of the try block; no handler runs and no
\* response is returned.
C10_MissingHandlerFails ==
    \A c \in MapCalls :
        HandlerOf(c) = None =>
            /\ invoked[c] = 0
            /\ pc[c] \in {"queued", "running", "done"}
            /\ pc[c] = "done" => result[c] = Reraise("TypeError")

C10_Witness ==
    /\ op[1] = "Map" /\ pc[1] = "done"
    /\ servicer.map_handler = None /\ servicer.mapt_handler = "remap"
    /\ result[1].kind = "error" /\ result[1].logged = "critical"

====
